---- MODULE Spec2Model ----
(***************************************************************************)
(* Taskbook: the command layer (class Taskbook) over the storage backend   *)
(* (class Storage, local files or the remote key-value store).             *)
(*                                                                         *)
(* JavaScript strings are modelled as sequences of one-character strings,  *)
(* so that startsWith, length, replace, join, Number and parseInt are      *)
(* computed as the code computes them.  A collection is a function from    *)
(* property keys (strings) to items, as the JSON documents are.            *)
(***************************************************************************)
EXTENDS Integers, Sequences, FiniteSets

\* ------------------------------------------------------------------ bounds
\* items created in one run
MaxItems == 2
\* commands issued in one run
MaxCmds == 3

\* ----------------------------------------------------------------- strings
Digit == <<"0", "1", "2", "3", "4", "5", "6", "7", "8", "9">>

IsDigit(c) == \E i \in 1..10 : Digit[i] = c

DigitVal(c) == (CHOOSE i \in 1..10 : Digit[i] = c) - 1

\* JavaScript's NaN: never equal to an id, never a digit string's value
NaN == -1

RECURSIVE DigitRun(_, _, _)
\* value of the run of digits of s that starts at position i
DigitRun(s, i, acc) ==
  IF i > Len(s) \/ ~IsDigit(s[i]) THEN acc
  ELSE DigitRun(s, i + 1, acc * 10 + DigitVal(s[i]))

\* parseInt(s, 10): the leading digits, NaN when there is none
parseInt(s) == IF s = <<>> \/ ~IsDigit(s[1]) THEN NaN ELSE DigitRun(s, 1, 0)

\* Number(s): the whole string must be digits; "" is 0; "01" is 1
Number(s) ==
  IF s = <<>> THEN 0
  ELSE IF \A i \in 1..Len(s) : IsDigit(s[i]) THEN DigitRun(s, 1, 0)
  ELSE NaN

RECURSIVE String(_)
\* the property key a number is stored under: String(n)
String(n) ==
  IF n < 10 THEN <<Digit[n + 1]>>
  ELSE String(n \div 10) \o <<Digit[(n % 10) + 1]>>

startsWithAt(x) == Len(x) > 0 /\ x[1] = "@"

RECURSIVE join(_, _)
\* Array.prototype.join
join(xs, sep) ==
  IF Len(xs) = 0 THEN <<>>
  ELSE IF Len(xs) = 1 THEN xs[1]
  ELSE xs[1] \o sep \o join(Tail(xs), sep)

MyBoard == <<"M", "y", " ", "B", "o", "a", "r", "d">>

\* ------------------------------------------------------------- collections
EmptyColl == <<>>

\* data[key] = item
SetKey(data, key, item) ==
  [k \in (DOMAIN data) \cup {key} |-> IF k = key THEN item ELSE data[k]]

\* delete data[key]
DeleteKey(data, key) == [k \in (DOMAIN data) \ {key} |-> data[k]]

RECURSIVE SortedKeys(_)
SortedKeys(S) ==
  IF S = {} THEN <<>>
  ELSE LET m == CHOOSE k \in S : \A j \in S : parseInt(k) <= parseInt(j)
       IN  <<m>> \o SortedKeys(S \ {m})

\* Object.keys(data): integer keys come in ascending order
ObjectKeys(data) == SortedKeys(DOMAIN data)

\* the items of a collection by their identity (uid is the model's name for
\* "the same item", which the code's _id is not: a move rewrites _id)
Uids(data) == {data[k].uid : k \in DOMAIN data}

\* a field that a Note does not carry reads as undefined, which is falsy
Flag(item, f) == IF f \in DOMAIN item THEN item[f] ELSE FALSE

\* ------------------------------------------------------------------ items
\* new Task({id, description, boards, priority})
NewTask(opts, uid) ==
  [uid |-> uid, _id |-> opts.id, _isTask |-> TRUE,
   description |-> opts.description, boards |-> opts.boards,
   isStarred |-> FALSE, isComplete |-> FALSE, inProgress |-> FALSE,
   priority |-> opts.priority]

\* new Note({id, description, boards})
NewNote(opts, uid) ==
  [uid |-> uid, _id |-> opts.id, _isTask |-> FALSE,
   description |-> opts.description, boards |-> opts.boards,
   isStarred |-> FALSE]

\* ------------------------------------------------------- Taskbook helpers
_arrayify(x, isArray) == IF isArray THEN x ELSE <<x>>

RECURSIVE Dedup(_, _)
\* [...new Set(xs)]: the first occurrence of each element, in order
Dedup(xs, seen) ==
  IF Len(xs) = 0 THEN <<>>
  ELSE IF xs[1] \in seen THEN Dedup(Tail(xs), seen)
  ELSE <<xs[1]>> \o Dedup(Tail(xs), seen \cup {xs[1]})

\* the array handed on with its repeats
_keepDuplicates(x, isArray) == _arrayify(x, isArray)

_removeDuplicates(x, isArray) == Dedup(_arrayify(x, isArray), {})

RECURSIVE MathMax(_)
\* Math.max(...ids) of a non-empty list, folded left to right
MathMax(ids) ==
  IF Len(ids) = 1 THEN ids[1]
  ELSE LET m == MathMax(Tail(ids)) IN IF ids[1] > m THEN ids[1] ELSE m

\* Object.keys(data).map(id => parseInt(id, 10))
_getIDs(data) ==
  LET keys == ObjectKeys(data) IN [i \in 1..Len(keys) |-> parseInt(keys[i])]

\* the id taken from the number of items instead of the largest id
_generateIDByCount(data) == Len(_getIDs(data)) + 1

_generateID(data) ==
  LET ids == _getIDs(data)
      max == IF Len(ids) = 0 THEN 0 ELSE MathMax(ids)
  IN  max + 1

\* existingIDs.indexOf(n) > -1
IndexOfFound(existingIDs, n) ==
  \E j \in 1..Len(existingIDs) : existingIDs[j] = n

\* ok = FALSE is process.exit(1); otherwise ids is the list returned.
\* inputIDs is an array of strings (isArray) or one string.
_validateIDs(inputIDs, isArray, existingIDs) ==
  IF Len(inputIDs) = 0 THEN [ok |-> FALSE, ids |-> <<>>]
  ELSE LET ids == _removeDuplicates(inputIDs, isArray)
       IN  [ok  |-> \A i \in 1..Len(ids) : IndexOfFound(existingIDs, Number(ids[i])),
            ids |-> ids]

PriorityOpts == {<<"p", ":", "1">>, <<"p", ":", "2">>, <<"p", ":", "3">>}

_isPriorityOpt(x) == x \in PriorityOpts

\* the code's default is the number 1 and an option gives the character;
\* both are kept as the one-character string
_getPriority(desc) ==
  IF \E i \in 1..Len(desc) : _isPriorityOpt(desc[i])
  THEN LET i == CHOOSE i \in 1..Len(desc) :
                  /\ _isPriorityOpt(desc[i])
                  /\ \A j \in 1..(i - 1) : ~_isPriorityOpt(desc[j])
       IN  <<desc[i][Len(desc[i])]>>
  ELSE <<"1">>

isBoardTag(x) == startsWithAt(x) /\ Len(x) > 1

\* the options with the boards as the input gave them, none by default
_getOptionsNoDefaultBoard(input, data) ==
  LET boards == SelectSeq(input, LAMBDA x : ~_isPriorityOpt(x) /\ isBoardTag(x))
      desc   == SelectSeq(input, LAMBDA x : ~_isPriorityOpt(x) /\ ~isBoardTag(x))
  IN  [boards      |-> boards,
       description |-> join(desc, <<" ">>),
       id          |-> _generateID(data),
       priority    |-> _getPriority(input)]

\* _getOptions after its empty-input exit; data is what _generateID read
_getOptions(input, data) ==
  LET boards == SelectSeq(input, LAMBDA x : ~_isPriorityOpt(x) /\ isBoardTag(x))
      desc   == SelectSeq(input, LAMBDA x : ~_isPriorityOpt(x) /\ ~isBoardTag(x))
  IN  [boards      |-> IF Len(boards) = 0 THEN <<MyBoard>> ELSE boards,
       description |-> join(desc, <<" ">>),
       id          |-> _generateID(data),
       priority    |-> _getPriority(input)]

RECURSIVE checkLoopMarksComplete(_, _)
\* the loop marking a task complete instead of flipping isComplete
checkLoopMarksComplete(data, ids) ==
  IF Len(ids) = 0 THEN [threw |-> FALSE, data |-> data]
  ELSE IF ids[1] \notin DOMAIN data THEN [threw |-> TRUE, data |-> data]
  ELSE LET it == data[ids[1]]
           d2 == IF it._isTask
                 THEN [data EXCEPT ![ids[1]] =
                         [it EXCEPT !.inProgress = FALSE, !.isComplete = TRUE]]
                 ELSE data
       IN  checkLoopMarksComplete(d2, Tail(ids))

RECURSIVE checkLoopKeepsProgress(_, _)
\* the loop flipping isComplete without resetting inProgress
checkLoopKeepsProgress(data, ids) ==
  IF Len(ids) = 0 THEN [threw |-> FALSE, data |-> data]
  ELSE IF ids[1] \notin DOMAIN data THEN [threw |-> TRUE, data |-> data]
  ELSE LET it == data[ids[1]]
           d2 == IF it._isTask
                 THEN [data EXCEPT ![ids[1]] =
                         [it EXCEPT !.isComplete = ~it.isComplete]]
                 ELSE data
       IN  checkLoopKeepsProgress(d2, Tail(ids))

RECURSIVE checkLoop(_, _)
\* the forEach of checkTasks; threw = TypeError on an undefined _data[id]
checkLoop(data, ids) ==
  IF Len(ids) = 0 THEN [threw |-> FALSE, data |-> data]
  ELSE IF ids[1] \notin DOMAIN data THEN [threw |-> TRUE, data |-> data]
  ELSE LET it == data[ids[1]]
           d2 == IF it._isTask
                 THEN [data EXCEPT ![ids[1]] =
                         [it EXCEPT !.inProgress = FALSE,
                                    !.isComplete = ~it.isComplete]]
                 ELSE data
       IN  checkLoop(d2, Tail(ids))

RECURSIVE beginLoop(_, _)
\* the forEach of beginTasks, as it runs on an array of ids (the command
\* itself never reaches it with one)
beginLoop(data, ids) ==
  IF Len(ids) = 0 THEN [threw |-> FALSE, data |-> data]
  ELSE IF ids[1] \notin DOMAIN data THEN [threw |-> TRUE, data |-> data]
  ELSE LET it == data[ids[1]]
           d2 == IF it._isTask
                 THEN [data EXCEPT ![ids[1]] =
                         [it EXCEPT !.isComplete = FALSE,
                                    !.inProgress = ~it.inProgress]]
                 ELSE data
       IN  beginLoop(d2, Tail(ids))

RECURSIVE starLoop(_, _)
\* the forEach of starItems
starLoop(data, ids) ==
  IF Len(ids) = 0 THEN [threw |-> FALSE, data |-> data]
  ELSE IF ids[1] \notin DOMAIN data THEN [threw |-> TRUE, data |-> data]
  ELSE starLoop([data EXCEPT ![ids[1]] = [@ EXCEPT !.isStarred = ~@]], Tail(ids))

\* the item archived under the id it had in the active collection
_saveItemToArchiveKeepID(arch, item) == SetKey(arch, String(item._id), item)

\* _saveItemToArchive on the archive read from disk: the archive it saves
_saveItemToArchive(arch, item) ==
  LET archiveID == _generateID(arch)
  IN  SetKey(arch, String(archiveID), [item EXCEPT !._id = archiveID])

\* ------------------------------------------------------------------ state
VARIABLES
  active,     \* the active collection as stored (storage.json, or the remote key)
  archive,    \* the archive collection as stored (archive.json)
  useDynamo,  \* config.get().useDynamo
  pc,         \* "idle", or "delete" while deleteItems is in its loop
  cmd,        \* the locals of the running deleteItems: ids, position, _data
  result,     \* the last command and how it ended
  nextUid,    \* identity of the next item created
  ncmds,      \* commands issued so far
  disk,       \* the canonical files as text (local write protocol)
  temp,       \* the scratch directory: file name -> text
  wr,         \* the process inside Storage.set / Storage.setArchive
  rd,         \* what the last reader of a canonical file obtained
  config,     \* config.get(): which of the three remote settings are set
  requests,   \* the GET and PUT requests issued to the remote store, in order
  call,       \* the process inside _getFromDynamo / _setToDynamo
  proc,       \* two invocations running at once: their position and locals
  writes      \* the invocations in the order of their writes

vars == <<active, archive, useDynamo, pc, cmd, result, nextUid, ncmds,
          disk, temp, wr, rd, config, requests, call, proc, writes>>

fsVars == <<disk, temp, wr, rd>>

netVars == <<config, requests, call>>

raceVars == <<proc, writes>>

cmdVars == <<active, archive, useDynamo, pc, cmd, result, nextUid, ncmds>>

NoCmd == [ids |-> <<>>, i |-> 0, data |-> EmptyColl]

CompleteConfig ==
  [dynamoBaseUrl |-> TRUE, dynamoToken |-> TRUE, dynamoNamespace |-> TRUE]

NoCall == [pc |-> "idle", op |-> "none", data |-> EmptyColl,
           ret |-> EmptyColl, missing |-> "", n |-> 0]

\* the remote layer at rest, as the command layer and the file protocol see it
NetIdle ==
  /\ config = CompleteConfig
  /\ requests = <<>>
  /\ call = NoCall

\* the two invocations of a race
Procs == {1, 2}

NoProc == [pc |-> "none", op |-> "none", id |-> 0,
           read |-> EmptyColl, data |-> EmptyColl, seen |-> 0]

\* no second invocation is running
RaceIdle ==
  /\ proc = [p \in Procs |-> NoProc]
  /\ writes = <<>>

\* --------------------------------------------------------- command inputs
A1 == <<"a">>
TagB == <<"@", "b">>
P2 == <<"p", ":", "2">>

CreateInputs == {<<>>, <<A1>>, <<A1, TagB, P2>>, <<TagB>>}

\* the inputs of createNote: none, and a description
NoteInputs == {<<>>, <<A1>>}

IdStrings == {String(n) : n \in 1..(MaxItems + 1)} \cup {<<"0", "1">>}

\* the id lists handed to a command: none, one id, two ids (repeats included)
IdLists ==
  {<<>>} \cup {<<x>> : x \in IdStrings} \cup {<<x, y>> : x, y \in IdStrings}

\* a remote request may fail; a local file access does not
Fails == IF useDynamo THEN BOOLEAN ELSE {FALSE}

\* ---------------------------------------------------------------- storage
\* Storage.get: _getFromDynamo answers {} when the request fails
storageGet(fail) ==
  IF useDynamo THEN (IF fail THEN EmptyColl ELSE active) ELSE active

\* Storage.set: the stored collection afterwards; _setToDynamo swallows a
\* failed PUT
storageSet(data, fail) ==
  IF useDynamo THEN (IF fail THEN active ELSE data) ELSE data

\* ---------------------------------------------------------------- actions
Ended(op, status) ==
  /\ result' = [op |-> op, status |-> status]
  /\ ncmds' = ncmds + 1

Idle == pc = "idle" /\ ncmds < MaxCmds

\* f1, f2: the two reads fail (remote only); fw: the write fails
createItem(input, isTask, op, f1, f2, fw) ==
  /\ Idle
  /\ IF Len(input) = 0
     THEN /\ Ended(op, "exit")
          /\ UNCHANGED <<active, nextUid>>
     ELSE /\ nextUid <= MaxItems
          /\   LET opts == _getOptions(input, storageGet(f1))
                   item == IF isTask THEN NewTask(opts, nextUid)
                                     ELSE NewNote(opts, nextUid)
                   _data == SetKey(storageGet(f2), String(opts.id), item)
               IN  active' = storageSet(_data, fw)
          /\ nextUid' = nextUid + 1
          /\ Ended(op, "ok")
  /\ UNCHANGED <<archive, useDynamo, pc, cmd, fsVars, netVars, raceVars>>

createTask(input, f1, f2, fw) ==
  createItem(input, TRUE, "createTask", f1, f2, fw)

createNote(input, f1, f2, fw) ==
  createItem(input, FALSE, "createNote", f1, f2, fw)

\* checkTasks and starItems: validate, read, loop, save
toggleItems(ids, op, f1, f2, fw) ==
  /\ Idle
  /\   LET v == _validateIDs(ids, TRUE, _getIDs(storageGet(f1)))
           r == IF op = "checkTasks" THEN checkLoop(storageGet(f2), v.ids)
                                     ELSE starLoop(storageGet(f2), v.ids)
       IN  IF ~v.ok THEN Ended(op, "exit") /\ UNCHANGED active
           ELSE IF r.threw THEN Ended(op, "throw") /\ UNCHANGED active
           ELSE Ended(op, "ok") /\ active' = storageSet(r.data, fw)
  /\ UNCHANGED <<archive, useDynamo, pc, cmd, nextUid, fsVars, netVars, raceVars>>

checkTasks(ids, f1, f2, fw) == toggleItems(ids, "checkTasks", f1, f2, fw)

starItems(ids, f1, f2, fw) == toggleItems(ids, "starItems", f1, f2, fw)

\* beginTasks does not await _validateIDs: ids is a Promise, ids.forEach is
\* not a function, and the command rejects before its loop and its save
beginTasks(ids, f1) ==
  /\ Idle
  /\   LET v == _validateIDs(ids, TRUE, _getIDs(storageGet(f1)))
       IN  Ended("beginTasks", IF v.ok THEN "throw" ELSE "exit")
  /\ UNCHANGED <<active, archive, useDynamo, pc, cmd, nextUid, fsVars, netVars, raceVars>>

\* deleteItems up to its loop (also reached from clear)
deleteStart(ids, op, f1, f2) ==
    LET v == _validateIDs(ids, TRUE, _getIDs(storageGet(f1)))
    IN  IF ~v.ok
        THEN Ended(op, "exit") /\ UNCHANGED <<pc, cmd>>
        ELSE /\ Ended(op, "run")
             /\ pc' = "delete"
             /\ cmd' = [ids |-> v.ids, i |-> 1, data |-> storageGet(f2)]

deleteItems(ids, f1, f2) ==
  /\ Idle
  /\ deleteStart(ids, "deleteItems", f1, f2)
  /\ UNCHANGED <<active, archive, useDynamo, nextUid, fsVars, netVars, raceVars>>

\* one turn of the loop: await _saveItemToArchive(_data[_id]); delete _data[_id]
deleteStep ==
  /\ pc = "delete"
  /\ cmd.i <= Len(cmd.ids)
  /\ LET _id == cmd.ids[cmd.i]
     IN  IF _id \notin DOMAIN cmd.data
         THEN \* item is undefined: item._id = archiveID throws
              /\ pc' = "idle"
              /\ cmd' = NoCmd
              /\ result' = [result EXCEPT !.status = "throw"]
              /\ UNCHANGED archive
         ELSE /\ archive' = _saveItemToArchive(archive, cmd.data[_id])
              /\ cmd' = [cmd EXCEPT !.i = @ + 1, !.data = DeleteKey(@, _id)]
              /\ UNCHANGED <<pc, result>>
  /\ UNCHANGED <<active, useDynamo, nextUid, ncmds, fsVars, netVars, raceVars>>

\* await this._save(_data)
deleteFinish(fw) ==
  /\ pc = "delete"
  /\ cmd.i > Len(cmd.ids)
  /\ active' = storageSet(cmd.data, fw)
  /\ pc' = "idle"
  /\ cmd' = NoCmd
  /\ result' = [result EXCEPT !.status = "ok"]
  /\ UNCHANGED <<archive, useDynamo, nextUid, ncmds, fsVars, netVars, raceVars>>

\* the process is killed inside deleteItems
crash ==
  /\ pc = "delete"
  /\ pc' = "idle"
  /\ cmd' = NoCmd
  /\ result' = [result EXCEPT !.status = "crash"]
  /\ UNCHANGED <<active, archive, useDynamo, nextUid, ncmds, fsVars, netVars, raceVars>>

\* restoreItems does not await _validateIDs either: validation runs (it has
\* no await on this path) and may exit, then ids.forEach throws
restoreItems(ids) ==
  /\ Idle
  /\ LET v == _validateIDs(ids, TRUE, _getIDs(archive))
     IN  Ended("restoreItems", IF v.ok THEN "throw" ELSE "exit")
  /\ UNCHANGED <<active, archive, useDynamo, pc, cmd, nextUid, fsVars, netVars, raceVars>>

\* every key collected, complete or not
allKeys(data) == ObjectKeys(data)

\* the keys clear collects
completeKeys(data) ==
  SelectSeq(ObjectKeys(data), LAMBDA k : Flag(data[k], "isComplete"))

clear(f0, f1, f2) ==
  /\ Idle
  /\   LET ids == completeKeys(storageGet(f0))
       IN  IF Len(ids) = 0
           THEN Ended("clear", "ok") /\ UNCHANGED <<pc, cmd>>
           ELSE deleteStart(ids, "clear", f1, f2)
  /\ UNCHANGED <<active, archive, useDynamo, nextUid, fsVars, netVars, raceVars>>

\* -------------------------------------------------- single-target commands
B1 == <<"b">>
C1w == <<"c">>
At1 == <<"@", "1">>
At2 == <<"@", "2">>
At3 == <<"@", "3">>
L2 == <<"2">>
MyboardWord == <<"m", "y", "b", "o", "a", "r", "d">>

MoveInputs == {<<At1, B1>>, <<At2, MyboardWord>>, <<At1>>, <<B1>>,
               <<At1, At2, B1>>, <<At3, B1>>}

EditInputs == {<<At1, C1w>>, <<At1>>, <<C1w>>, <<At1, At2, C1w>>, <<At3, C1w>>}

PriorityInputs == {<<At1, L2>>, <<At1>>, <<L2>>, <<At1, At2, L2>>, <<At3, L2>>}

\* input.filter(x => x.startsWith('@'))
targetsOf(input) == SelectSeq(input, startsWithAt)

\* input.filter(x => x !== target)
restOf(input, target) == SelectSeq(input, LAMBDA x : x # target)

\* target.replace('@', ''): the '@' replaced is the leading one
stripAt(target) == Tail(target)

\* item[f] = v, also for a field the item did not carry
SetField(item, f, v) ==
  [g \in (DOMAIN item) \cup {f} |-> IF g = f THEN v ELSE item[g]]

\* boards.push(x === 'myboard' ? 'My Board' : `@${x}`), then deduplicated
boardsOf(rest) ==
  Dedup([i \in 1..Len(rest) |->
           IF rest[i] = MyboardWord THEN MyBoard ELSE <<"@">> \o rest[i]], {})

\* the tail shared by moveBoards and updatePriority once the target is
\* validated (awaited): id is the one-element array _validateIDs returned,
\* and _data[id] reads the key id.toString()
setTargetField(op, v, f, val, f2, fw) ==
    LET _data == storageGet(f2)
        key == v.ids[1]
    IN  IF key \notin DOMAIN _data
        THEN Ended(op, "throw") /\ UNCHANGED active
        ELSE /\ Ended(op, "ok")
             /\ active' = storageSet(
                  [_data EXCEPT ![key] = SetField(@, f, val)], fw)

moveBoards(input, f1, f2, fw) ==
  /\ Idle
  /\ LET targets == targetsOf(input)
     IN  IF Len(targets) # 1
         THEN Ended("moveBoards", "exit") /\ UNCHANGED active
         ELSE   LET v == _validateIDs(stripAt(targets[1]), FALSE,
                                      _getIDs(storageGet(f1)))
                    boards == boardsOf(restOf(input, targets[1]))
                IN  IF ~v.ok \/ Len(boards) = 0
                    THEN Ended("moveBoards", "exit") /\ UNCHANGED active
                    ELSE setTargetField("moveBoards", v, "boards", boards, f2, fw)
  /\ UNCHANGED <<archive, useDynamo, pc, cmd, nextUid, fsVars, netVars, raceVars>>

\* input.find(x => ['1', '2', '3'].indexOf(x) > -1)
levelOf(input) ==
  LET hits == SelectSeq(input, LAMBDA x : x \in {<<"1">>, <<"2">>, <<"3">>})
  IN  IF Len(hits) = 0 THEN <<>> ELSE hits[1]

updatePriority(input, f1, f2, fw) ==
  /\ Idle
  /\ LET targets == targetsOf(input)
     IN  IF levelOf(input) = <<>> \/ Len(targets) # 1
         THEN Ended("updatePriority", "exit") /\ UNCHANGED active
         ELSE   LET v == _validateIDs(stripAt(targets[1]), FALSE,
                                      _getIDs(storageGet(f1)))
                IN  IF ~v.ok
                    THEN Ended("updatePriority", "exit") /\ UNCHANGED active
                    ELSE setTargetField("updatePriority", v, "priority",
                                        levelOf(input), f2, fw)
  /\ UNCHANGED <<archive, useDynamo, pc, cmd, nextUid, fsVars, netVars, raceVars>>

\* editDescription does not await _validateIDs: id is a Promise, so
\* _data[id] is undefined and the assignment throws before the save
editDescription(input, f1) ==
  /\ Idle
  /\ LET targets == targetsOf(input)
     IN  IF Len(targets) # 1
         THEN Ended("editDescription", "exit")
         ELSE IF Len(join(restOf(input, targets[1]), <<" ">>)) = 0
         THEN Ended("editDescription", "exit")
         ELSE   LET v == _validateIDs(stripAt(targets[1]), FALSE,
                                      _getIDs(storageGet(f1)))
                IN  Ended("editDescription", IF v.ok THEN "throw" ELSE "exit")
  /\ UNCHANGED <<active, archive, useDynamo, pc, cmd, nextUid, fsVars, netVars, raceVars>>

\* ------------------------------------------------------ the attribute filter
\* Object.keys(data).forEach(id => { if (...) delete data[id] }): what the
\* object holds afterwards, kept being the keys that are not deleted
afterDeletes(data, kept) == [k \in kept |-> data[k]]

_filterTask(data) ==
  afterDeletes(data, {k \in DOMAIN data : data[k]._isTask})

_filterStarred(data) ==
  afterDeletes(data, {k \in DOMAIN data : data[k].isStarred})

\* the filter that deletes nothing
_filterNothing(data) == data

_filterInProgress(data) ==
  afterDeletes(data, {k \in DOMAIN data :
                        data[k]._isTask /\ Flag(data[k], "inProgress")})

_filterComplete(data) ==
  afterDeletes(data, {k \in DOMAIN data :
                        data[k]._isTask /\ Flag(data[k], "isComplete")})

_filterPending(data) ==
  afterDeletes(data, {k \in DOMAIN data :
                        data[k]._isTask /\ ~Flag(data[k], "isComplete")})

_filterNote(data) ==
  afterDeletes(data, {k \in DOMAIN data : ~data[k]._isTask})

\* one turn of attr.forEach: the switch on the tag
filterCase(x, data) ==
  IF x \in {"star", "starred"} THEN _filterStarred(data)
  ELSE IF x \in {"done", "checked", "complete"} THEN _filterComplete(data)
  ELSE IF x \in {"progress", "started", "begun"} THEN _filterInProgress(data)
  ELSE IF x \in {"pending", "unchecked", "incomplete"} THEN _filterPending(data)
  ELSE IF x \in {"todo", "task", "tasks"} THEN _filterTask(data)
  ELSE IF x \in {"note", "notes"} THEN _filterNote(data)
  ELSE data

RECURSIVE filterEach(_, _)
filterEach(attr, data) ==
  IF Len(attr) = 0 THEN data
  ELSE filterEach(Tail(attr), filterCase(attr[1], data))

\* _filterByAttributes(attr, data) on an object the caller passes: every
\* filter deletes from the object it is handed and returns that same object,
\* so the object returned (ret) is the caller's object (arg) after the call
_filterByAttributes(attr, data) ==
  LET d == IF DOMAIN data = {} THEN data ELSE filterEach(attr, data)
  IN  [ret |-> d, arg |-> d]

\* ------------------------------------------------ the local write protocol
\* A file's text is the collection it serialises and how much of the text
\* is on disk, in chunks; a text is whole when all MaxChunks are there.
MaxChunks == 2
\* writes begun in one run of the write protocol
MaxWrites == 2

NoFile == [exists |-> FALSE, of |-> EmptyColl, len |-> 0]

\* JSON.stringify(data, null, 4)
JSONstringify(data) == [exists |-> TRUE, of |-> data, len |-> MaxChunks]

\* JSON.parse(content): a text that is not whole is a SyntaxError
JSONparse(text) ==
  IF text.len = MaxChunks THEN [ok |-> TRUE, data |-> text.of]
  ELSE [ok |-> FALSE, data |-> EmptyColl]

\* _getRandomHexString
RandomHex == {"r1", "r2"}

CanonPath(file) == [dir |-> "canon", name |-> file, r |-> "-"]

\* the text written straight to the canonical file
_getTempFileInPlace(file, r) == CanonPath(file)

\* _getTempFile(filePath): <tempDir>/<base>.TEMP-<random>.json
_getTempFile(file, r) == [dir |-> "temp", name |-> file, r |-> r]

fileAt(path) ==
  IF path.dir = "canon" THEN disk[path.name]
  ELSE IF path \in DOMAIN temp THEN temp[path] ELSE NoFile

\* the directory entry at path now holds text
PutFile(path, text) ==
  /\ disk' = IF path.dir = "canon" THEN [disk EXCEPT ![path.name] = text] ELSE disk
  /\ temp' = IF path.dir = "temp" THEN SetKey(temp, path, text) ELSE temp

\* Storage.get / Storage.getArchive on the local files
readFile(file) ==
  IF ~disk[file].exists THEN [ok |-> TRUE, data |-> EmptyColl]
  ELSE JSONparse(disk[file])

NoWriter == [pc |-> "idle", file |-> "main", path |-> CanonPath("main"),
             data |-> EmptyColl, prior |-> EmptyColl, written |-> 0, n |-> 0]

sample1 ==
  NewTask([id |-> 1, description |-> <<"a">>, boards |-> <<MyBoard>>,
           priority |-> <<"1">>], 1)

sample2 ==
  NewNote([id |-> 2, description |-> <<"b">>, boards |-> <<MyBoard>>], 2)

SampleColls ==
  {EmptyColl,
   SetKey(EmptyColl, String(1), sample1),
   SetKey(SetKey(EmptyColl, String(1), sample1), String(2), sample2)}

\* set / setArchive up to the open of writeFileSync: the scratch file is
\* created, or truncated, under its random name
writeBegin(file, data) ==
  /\ wr.pc # "write"
  /\ wr.n < MaxWrites
  /\ readFile(file).ok
  /\ \E r \in RandomHex :
       LET path == _getTempFile(file, r)
       IN  /\ wr' = [pc |-> "write", file |-> file, path |-> path, data |-> data,
                     prior |-> readFile(file).data, written |-> 0,
                     n |-> wr.n + 1]
           /\ PutFile(path, [JSONstringify(data) EXCEPT !.len = 0])
  /\ UNCHANGED rd
  /\ UNCHANGED <<cmdVars, netVars, raceVars>>

\* Storage.set(data), local branch
set(data) == writeBegin("main", data)

\* Storage.setArchive(archive)
setArchive(data) == writeBegin("archive", data)

\* writeFileSync goes on; a scratch file unlinked meanwhile is written
\* through the open descriptor and has no directory entry any more
writeChunk ==
  /\ wr.pc = "write"
  /\ wr.written < MaxChunks
  /\ wr' = [wr EXCEPT !.written = @ + 1]
  /\ IF fileAt(wr.path).exists
     THEN PutFile(wr.path, [fileAt(wr.path) EXCEPT !.len = wr.written + 1])
     ELSE UNCHANGED <<disk, temp>>
  /\ UNCHANGED <<rd, cmdVars, netVars, raceVars>>

\* fs.renameSync(tempFile, canonicalFile)
renameSync ==
  /\ wr.pc = "write"
  /\ wr.written = MaxChunks
  /\ IF ~fileAt(wr.path).exists
     THEN \* ENOENT
          /\ wr' = [wr EXCEPT !.pc = "failed"]
          /\ UNCHANGED <<disk, temp>>
     ELSE /\ wr' = [wr EXCEPT !.pc = "done"]
          /\ IF wr.path = CanonPath(wr.file)
             THEN UNCHANGED <<disk, temp>>
             ELSE /\ disk' = [disk EXCEPT ![wr.file] = fileAt(wr.path)]
                  /\ temp' = DeleteKey(temp, wr.path)
  /\ UNCHANGED <<rd, cmdVars, netVars, raceVars>>

\* the writing process is killed before its rename
crashWrite ==
  /\ wr.pc = "write"
  /\ wr' = [wr EXCEPT !.pc = "crashed"]
  /\ UNCHANGED <<disk, temp, rd, cmdVars, netVars, raceVars>>

\* a Taskbook instance starts: _ensureDirectories ends in _cleanTempDir
_cleanTempDir ==
  /\ temp # <<>>
  /\ temp' = <<>>
  /\ UNCHANGED <<disk, wr, rd, cmdVars, netVars, raceVars>>

\* a reader (another process, or the next run) reads a canonical file
read(file) ==
  /\ rd' = [file |-> file, ok |-> readFile(file).ok, data |-> readFile(file).data]
  /\ rd' # rd
  /\ UNCHANGED <<disk, temp, wr, cmdVars, netVars, raceVars>>

InitWrite ==
  /\ active = EmptyColl
  /\ archive = EmptyColl
  /\ useDynamo = FALSE
  /\ pc = "idle"
  /\ cmd = NoCmd
  /\ result = [op |-> "none", status |-> "ok"]
  /\ nextUid = 1
  /\ ncmds = 0
  /\ \E m \in {NoFile} \cup {JSONstringify(c) : c \in SampleColls},
        a \in {NoFile, JSONstringify(SetKey(EmptyColl, String(1), sample2))} :
       disk = [main |-> m, archive |-> a]
  /\ temp = <<>>
  /\ wr = NoWriter
  /\ rd = [file |-> "main", ok |-> TRUE, data |-> EmptyColl]
  /\ NetIdle
  /\ RaceIdle

NextWrite ==
  \/ \E data \in SampleColls : set(data)
  \/ \E data \in SampleColls : setArchive(data)
  \/ writeChunk
  \/ renameSync
  \/ crashWrite
  \/ _cleanTempDir
  \/ \E file \in {"main", "archive"} : read(file)

SpecWrite == InitWrite /\ [][NextWrite]_vars

\* ------------------------------------------------- concurrent invocations
\* Two invocations (two processes) of a command on the same active
\* collection.  Each runs its command as the code does: the read for the id
\* (_generateID or _validateIDs), the read of the snapshot with the change
\* made on it, and the write of the snapshot; the file accesses of the two
\* interleave freely.
RaceOps == {"createTask", "checkTasks", "starItems"}

\* the id list of a racing checkTasks or starItems
RaceIds == <<String(1)>>

\* the identity of the item invocation p creates, after the samples' 1 and 2
raceUid(p) == 2 + p

\* the change of p's command made on the snapshot base
changeOn(p, base) ==
  IF proc[p].op = "createTask"
  THEN [threw |-> FALSE,
        data  |-> SetKey(base, String(proc[p].id),
                         NewTask([_getOptions(<<A1>>, base) EXCEPT
                                    !.id = proc[p].id], raceUid(p)))]
  ELSE IF proc[p].op = "checkTasks" THEN checkLoop(base, RaceIds)
  ELSE starLoop(base, RaceIds)

\* the snapshot read afresh at the write, with the change made on it
mergedSnapshot(p) == changeOn(p, active).data

\* this._save(_data): the snapshot the invocation read and changed
savedSnapshot(p) == proc[p].data

raceInvoke(p, op) ==
  /\ proc[p].pc = "none"
  /\ proc' = [proc EXCEPT ![p] = [@ EXCEPT !.pc = "start", !.op = op]]
  /\ UNCHANGED <<writes, cmdVars, fsVars, netVars>>

\* the first read: _getOptions allocates the id, or _validateIDs checks the
\* ids, against the collection as stored now
raceReadIds(p) ==
  /\ proc[p].pc = "start"
  /\ IF proc[p].op = "createTask"
     THEN proc' = [proc EXCEPT ![p] =
                     [@ EXCEPT !.pc = "ids",
                               !.id = _getOptions(<<A1>>, active).id]]
     ELSE proc' = [proc EXCEPT ![p] =
                     [@ EXCEPT !.pc =
                        IF _validateIDs(RaceIds, TRUE, _getIDs(active)).ok
                        THEN "ids" ELSE "exited"]]
  /\ UNCHANGED <<writes, cmdVars, fsVars, netVars>>

\* the second read: const _data = await this._data(), and the change on it
raceReadData(p) ==
  /\ proc[p].pc = "ids"
  /\ LET r == changeOn(p, active)
     IN  proc' = [proc EXCEPT ![p] =
                    IF r.threw THEN [@ EXCEPT !.pc = "exited"]
                    ELSE [@ EXCEPT !.pc = "data", !.read = active,
                                   !.data = r.data, !.seen = Len(writes)]]
  /\ UNCHANGED <<writes, cmdVars, fsVars, netVars>>

\* this._save(_data): the whole collection is replaced
raceWrite(p) ==
  /\ proc[p].pc = "data"
  /\ active' = savedSnapshot(p)
  /\ writes' = Append(writes, p)
  /\ proc' = [proc EXCEPT ![p] = [@ EXCEPT !.pc = "done"]]
  /\ UNCHANGED <<archive, useDynamo, pc, cmd, result, nextUid, ncmds,
                 fsVars, netVars>>

InitRace ==
  /\ active \in SampleColls
  /\ archive = EmptyColl
  /\ useDynamo = FALSE
  /\ pc = "idle"
  /\ cmd = NoCmd
  /\ result = [op |-> "none", status |-> "ok"]
  /\ nextUid = 1
  /\ ncmds = 0
  /\ disk = [main |-> NoFile, archive |-> NoFile]
  /\ temp = <<>>
  /\ wr = NoWriter
  /\ rd = [file |-> "main", ok |-> TRUE, data |-> EmptyColl]
  /\ NetIdle
  /\ RaceIdle

NextRace ==
  \/ \E p \in Procs, op \in RaceOps : raceInvoke(p, op)
  \/ \E p \in Procs : raceReadIds(p)
  \/ \E p \in Procs : raceReadData(p)
  \/ \E p \in Procs : raceWrite(p)

SpecRace == InitRace /\ [][NextRace]_vars

\* ---------------------------------------------- the remote request protocol
\* storage calls made in one run of the remote protocol
MaxCalls == 3

\* a setting is modelled by whether config.get() gives a truthy value for it
Configs ==
  [dynamoBaseUrl : BOOLEAN, dynamoToken : BOOLEAN, dynamoNamespace : BOOLEAN]

\* the check that looks at the base URL and the token only
_checkUrlAndTokenOnly(cfg) ==
  IF ~cfg.dynamoBaseUrl THEN "dynamoBaseUrl"
  ELSE IF ~cfg.dynamoToken THEN "dynamoToken"
  ELSE ""

\* _checkAndGetDynamoInstance: the setting reported to render.missingConfig
\* before process.exit(1), or "" when the instance is created
_checkAndGetDynamoInstance(cfg) ==
  IF ~cfg.dynamoBaseUrl THEN "dynamoBaseUrl"
  ELSE IF ~cfg.dynamoToken THEN "dynamoToken"
  ELSE IF ~cfg.dynamoNamespace THEN "dynamoNamespace"
  ELSE ""

\* a storage call up to its request: the configuration check comes first and
\* exits the process; otherwise the request goes out
dynamoCall(op, verb, data) ==
  /\ call.pc = "idle"
  /\ call.n < MaxCalls
  /\ LET missing == _checkAndGetDynamoInstance(config)
     IN  IF missing # ""
         THEN /\ call' = [call EXCEPT !.pc = "exited", !.op = op, !.data = data,
                                      !.missing = missing, !.n = @ + 1]
              /\ UNCHANGED requests
         ELSE /\ call' = [call EXCEPT !.pc = "sent", !.op = op, !.data = data,
                                      !.missing = "", !.n = @ + 1]
              /\ requests' = Append(requests, verb)
  /\ UNCHANGED <<config, cmdVars, fsVars, raceVars>>

\* Storage.get with useDynamo: _getFromDynamo up to instance.get
_getFromDynamo == dynamoCall("get", "GET", EmptyColl)

\* Storage.set(data) with useDynamo: _setToDynamo up to instance.put
_setToDynamo(data) == dynamoCall("put", "PUT", data)

\* the request ends: a GET answers the stored collection, or {} from the
\* catch; a PUT replaces the stored collection, or fails and is swallowed
dynamoResponse(fail) ==
  /\ call.pc = "sent"
  /\ call' = [call EXCEPT !.pc = "idle",
                          !.ret = IF call.op = "get" /\ ~fail THEN active
                                  ELSE EmptyColl]
  /\ active' = IF call.op = "put" /\ ~fail THEN call.data ELSE active
  /\ UNCHANGED <<archive, useDynamo, pc, cmd, result, nextUid, ncmds,
                 config, requests, fsVars, raceVars>>

\* the next invocation after a process.exit(1)
nextInvocation ==
  /\ call.pc = "exited"
  /\ call.n < MaxCalls
  /\ call' = [call EXCEPT !.pc = "idle"]
  /\ UNCHANGED <<config, requests, cmdVars, fsVars, raceVars>>

InitDynamo ==
  /\ active \in SampleColls
  /\ archive = EmptyColl
  /\ useDynamo = TRUE
  /\ pc = "idle"
  /\ cmd = NoCmd
  /\ result = [op |-> "none", status |-> "ok"]
  /\ nextUid = 1
  /\ ncmds = 0
  /\ disk = [main |-> NoFile, archive |-> NoFile]
  /\ temp = <<>>
  /\ wr = NoWriter
  /\ rd = [file |-> "main", ok |-> TRUE, data |-> EmptyColl]
  /\ config \in Configs
  /\ requests = <<>>
  /\ call = NoCall
  /\ RaceIdle

NextDynamo ==
  \/ _getFromDynamo
  \/ \E data \in SampleColls : _setToDynamo(data)
  \/ \E fail \in BOOLEAN : dynamoResponse(fail)
  \/ nextInvocation

SpecDynamo == InitDynamo /\ [][NextDynamo]_vars

\* ----------------------------------------------------------- specification
Init ==
  /\ active = EmptyColl
  /\ archive = EmptyColl
  /\ useDynamo \in BOOLEAN
  /\ pc = "idle"
  /\ cmd = NoCmd
  /\ result = [op |-> "none", status |-> "ok"]
  /\ nextUid = 1
  /\ ncmds = 0
  /\ disk = [main |-> NoFile, archive |-> NoFile]
  /\ temp = <<>>
  /\ wr = NoWriter
  /\ rd = [file |-> "main", ok |-> TRUE, data |-> EmptyColl]
  /\ NetIdle
  /\ RaceIdle

Next ==
  \/ \E input \in CreateInputs, f1, f2, fw \in Fails : createTask(input, f1, f2, fw)
  \/ \E input \in NoteInputs, f1, f2, fw \in Fails : createNote(input, f1, f2, fw)
  \/ \E ids \in IdLists, f1, f2, fw \in Fails : checkTasks(ids, f1, f2, fw)
  \/ \E ids \in IdLists, f1 \in Fails : beginTasks(ids, f1)
  \/ \E ids \in IdLists, f1, f2, fw \in Fails : starItems(ids, f1, f2, fw)
  \/ \E ids \in IdLists, f1, f2 \in Fails : deleteItems(ids, f1, f2)
  \/ deleteStep
  \/ \E fw \in Fails : deleteFinish(fw)
  \/ crash
  \/ \E ids \in IdLists : restoreItems(ids)
  \/ \E input \in MoveInputs, f1, f2, fw \in Fails : moveBoards(input, f1, f2, fw)
  \/ \E input \in EditInputs, f1 \in Fails : editDescription(input, f1)
  \/ \E input \in PriorityInputs, f1, f2, fw \in Fails : updatePriority(input, f1, f2, fw)
  \/ \E f0, f1, f2 \in Fails : clear(f0, f1, f2)

Spec == Init /\ [][Next]_vars

\* ------------------------------------------------------------------ claims
\* the ids of a collection as numbers
NumKeys(data) == {parseInt(k) : k \in DOMAIN data}

\* max(existing ids) + 1, or 1 for the empty collection
NextIdOf(data) ==
  IF DOMAIN data = {} THEN 1
  ELSE (CHOOSE m \in NumKeys(data) : \A j \in NumKeys(data) : j <= m) + 1

Distinct(ids) == \A i, j \in 1..Len(ids) : ids[i] = ids[j] => i = j

AllKeysOf(ids, data) == \A i \in 1..Len(ids) : ids[i] \in DOMAIN data

\* C1: in every reachable state, the states inside deleteItems and the states
\* left by a crash or a failed remote write included, no item is present in
\* both the active collection and the archive.
C1_NoItemInBoth == Uids(active) \cap Uids(archive) = {}

\* C2: removal is always a move: no step of any command, on either backend
\* and with remote reads or writes failing, drops an item that was stored in
\* active or archive; it is still stored in one of the two afterwards.
C2_NoCommandDropsAnItem ==
  [][(Uids(active) \cup Uids(archive)) \subseteq
       (Uids(active') \cup Uids(archive'))]_vars

\* C3: restoreItems(ids) with k >= 1 distinct ids that all exist in the
\* archive leaves active with exactly k more items, no earlier active item
\* overwritten, each referenced item in active and none of them in the
\* archive.
C3_RestoreMovesEveryItem ==
  [][\A ids \in IdLists :
       (/\ result'.op = "restoreItems"
        /\ Len(ids) >= 1 /\ Distinct(ids) /\ AllKeysOf(ids, archive)
        /\ restoreItems(ids))
       => /\ Cardinality(DOMAIN active') = Cardinality(DOMAIN active) + Len(ids)
          /\ \A k \in DOMAIN active : k \in DOMAIN active' /\ active'[k] = active[k]
          /\ \A i \in 1..Len(ids) :
               /\ archive[ids[i]].uid \in Uids(active')
               /\ archive[ids[i]].uid \notin Uids(archive')]_vars

\* the four fields an archive/restore round trip keeps
SameContent(x, y) ==
  /\ x.uid = y.uid
  /\ x.description = y.description
  /\ x.boards = y.boards
  /\ x.isStarred = y.isStarred
  /\ Flag(x, "priority") = Flag(y, "priority")

\* C4: deleteItems([id]) followed by restoreItems([archiveId]) of the archive
\* entry the delete produced leaves in active an item with the description,
\* boards, priority and isStarred of the original, and the archive without it.
C4_DeleteThenRestorePreserves ==
  [][\A aid \in IdStrings :
       (/\ result = [op |-> "deleteItems", status |-> "ok"]
        /\ aid \in DOMAIN archive
        /\ parseInt(aid) + 1 = NextIdOf(archive)
        /\ restoreItems(<<aid>>))
       => /\ \E k \in DOMAIN active' : SameContent(active'[k], archive[aid])
          /\ archive[aid].uid \notin Uids(archive')]_vars

\* C5: deleteItems with valid ids run to completion on the local backend:
\* every turn of its loop adds the referenced item, unchanged but for _id, to
\* the archive under nextId of the archive as it then stands, a key the
\* archive did not hold, and leaves the archive's other entries alone; its
\* final save removes exactly the referenced items from active, every one of
\* them is then in the archive, and the other active items are unchanged.
C5_DeleteMovesToArchive ==
  [][~useDynamo =>
       /\ (pc = "delete" /\ pc' = "delete" /\ cmd'.i = cmd.i + 1) =>
            LET _id == cmd.ids[cmd.i]
                aid == String(NextIdOf(archive))
            IN  /\ aid \notin DOMAIN archive
                /\ DOMAIN archive' = (DOMAIN archive) \cup {aid}
                /\ \A k \in DOMAIN archive : archive'[k] = archive[k]
                /\ _id \in DOMAIN active
                /\ archive'[aid] = [active[_id] EXCEPT !._id = NextIdOf(archive)]
                /\ active' = active
       /\ (pc = "delete" /\ pc' = "idle" /\ result'.status = "ok") =>
            LET gone == {cmd.ids[i] : i \in 1..Len(cmd.ids)}
            IN  /\ gone \subseteq DOMAIN active
                /\ DOMAIN active' = (DOMAIN active) \ gone
                /\ \A k \in DOMAIN active' : active'[k] = active[k]
                /\ \A k \in gone : active[k].uid \in Uids(archive)
                /\ archive' = archive]_vars

\* a deleteItems that moved two items in one command has completed locally
C5_Witness ==
  /\ ~useDynamo
  /\ result = [op |-> "deleteItems", status |-> "ok"]
  /\ active = EmptyColl
  /\ Cardinality(DOMAIN archive) = 2

\* C6: _generateID(collection) is 1 for the empty collection and otherwise
\* max(existing ids) + 1 (it exceeds every id and its predecessor is an id),
\* so it is never a key of the collection it was computed from.
C6_GenerateIDIsMaxPlusOne ==
  \A data \in {active, archive, cmd.data} :
    LET g == _generateID(data)
    IN  /\ DOMAIN data = {} => g = 1
        /\ DOMAIN data # {} =>
             (g - 1 \in NumKeys(data) /\ \A n \in NumKeys(data) : n < g)
        /\ String(g) \notin DOMAIN data

\* an active collection whose largest id is not its size
C6_Witness ==
  /\ DOMAIN active = {String(2)}
  /\ DOMAIN archive = {String(1)}
  /\ _generateID(active) = 3

\* C7: a local write of N over canonical content P: from its start to its
\* rename a reader of the canonical file obtains exactly P, after the rename
\* exactly N, a crash (or a failed rename) before the rename leaves P, and no
\* canonical file ever holds a text that is not whole.
C7_LocalWriteIsAtomic ==
  /\ \A file \in {"main", "archive"} : readFile(file).ok
  /\ rd.ok
  /\ wr.pc \in {"write", "crashed", "failed"} => readFile(wr.file).data = wr.prior
  /\ wr.pc = "done" => readFile(wr.file).data = wr.data

\* a reader has read the new collection after the rename of a write that
\* changed the file
C7_Witness ==
  /\ wr.pc = "done"
  /\ wr.data # wr.prior
  /\ rd = [file |-> wr.file, ok |-> TRUE, data |-> wr.data]

\* an id list the claim calls invalid for a target collection
InvalidIds(ids, data) == Len(ids) = 0 \/ ~AllKeysOf(ids, data)

Unwritten == active' = active /\ archive' = archive

Aborted == result'.status \in {"exit", "throw"}

\* C8: an id-taking command whose id list is empty or holds an id that is no
\* key of the target collection aborts and writes neither collection, at any
\* of its steps.
C8_InvalidIdsWriteNothing ==
  [][/\ (pc = "idle" /\ result'.op = "checkTasks") =>
          \A ids \in IdLists, f1, f2, fw \in Fails :
            (InvalidIds(ids, active) /\ checkTasks(ids, f1, f2, fw))
              => Unwritten /\ Aborted
     /\ (pc = "idle" /\ result'.op = "starItems") =>
          \A ids \in IdLists, f1, f2, fw \in Fails :
            (InvalidIds(ids, active) /\ starItems(ids, f1, f2, fw))
              => Unwritten /\ Aborted
     /\ (pc = "idle" /\ result'.op = "beginTasks") =>
          \A ids \in IdLists, f1 \in Fails :
            (InvalidIds(ids, active) /\ beginTasks(ids, f1))
              => Unwritten /\ Aborted
     /\ (pc = "idle" /\ result'.op = "deleteItems") =>
          \A ids \in IdLists, f1, f2 \in Fails :
            (InvalidIds(ids, active) /\ deleteItems(ids, f1, f2))
              => Unwritten
     /\ (pc = "idle" /\ result'.op = "restoreItems") =>
          \A ids \in IdLists :
            (InvalidIds(ids, archive) /\ restoreItems(ids))
              => Unwritten /\ Aborted
     /\ (pc = "idle" /\ result'.op = "moveBoards") =>
          \A input \in MoveInputs, f1, f2, fw \in Fails :
            (/\ Len(targetsOf(input)) = 1
             /\ InvalidIds(<<stripAt(targetsOf(input)[1])>>, active)
             /\ moveBoards(input, f1, f2, fw)) => Unwritten /\ Aborted
     /\ (pc = "idle" /\ result'.op = "editDescription") =>
          \A input \in EditInputs, f1 \in Fails :
            (/\ Len(targetsOf(input)) = 1
             /\ InvalidIds(<<stripAt(targetsOf(input)[1])>>, active)
             /\ editDescription(input, f1)) => Unwritten /\ Aborted
     /\ (pc = "idle" /\ result'.op = "updatePriority") =>
          \A input \in PriorityInputs, f1, f2, fw \in Fails :
            (/\ Len(targetsOf(input)) = 1
             /\ InvalidIds(<<stripAt(targetsOf(input)[1])>>, active)
             /\ updatePriority(input, f1, f2, fw)) => Unwritten /\ Aborted
     /\ (pc = "delete" /\ InvalidIds(cmd.ids, active)) => Unwritten]_vars

\* C9: for every task of the active collection, checkTasks([id]) (its storage
\* requests succeeding) flips isComplete and leaves inProgress false, also
\* for a task that was in progress, and a second checkTasks([id]) returns
\* isComplete to its original value.
C9_CheckFlipsIsComplete ==
  [][\A id \in IdStrings :
       (/\ id \in DOMAIN active
        /\ active[id]._isTask
        /\ result'.op = "checkTasks"
        /\ checkTasks(<<id>>, FALSE, FALSE, FALSE))
       => LET again == checkLoop(active', <<id>>).data
              begun == [active EXCEPT ![id] =
                          [@ EXCEPT !.inProgress = TRUE, !.isComplete = FALSE]]
              once == checkLoop(begun, <<id>>).data
          IN  /\ id \in DOMAIN active'
              /\ active'[id].isComplete = ~active[id].isComplete
              /\ active'[id].inProgress = FALSE
              /\ \A k \in DOMAIN active : k # id => active'[k] = active[k]
              /\ again[id].isComplete = active[id].isComplete
              /\ again[id].inProgress = FALSE
              /\ once[id].isComplete /\ ~once[id].inProgress]_vars

\* a checkTasks has completed and left a task complete
C9_Witness ==
  /\ result = [op |-> "checkTasks", status |-> "ok"]
  /\ \E k \in DOMAIN active : active[k]._isTask /\ active[k].isComplete

\* C10: for every task of the active collection, beginTasks([id]) flips
\* inProgress and leaves isComplete false in the stored collection.
C10_BeginFlipsInProgress ==
  [][\A id \in IdStrings :
       (/\ id \in DOMAIN active
        /\ active[id]._isTask
        /\ result'.op = "beginTasks"
        /\ beginTasks(<<id>>, FALSE))
       => /\ id \in DOMAIN active'
          /\ active'[id].inProgress = ~active[id].inProgress
          /\ active'[id].isComplete = FALSE]_vars

\* no item of the collection is both complete and in progress
Exclusive(data) ==
  \A k \in DOMAIN data :
    ~(Flag(data[k], "isComplete") /\ Flag(data[k], "inProgress"))

\* C11: starting from the empty store, after any sequence of commands no task
\* in active or in archive (or in the snapshot a running delete holds) has
\* both isComplete and inProgress true; and the loops of checkTasks and
\* beginTasks keep it so on every such collection, in either order.
C11_CompleteExcludesInProgress ==
  /\ Exclusive(active)
  /\ Exclusive(archive)
  /\ Exclusive(cmd.data)
  /\ \A id \in DOMAIN active :
       LET begun == beginLoop(active, <<id>>).data
           checked == checkLoop(active, <<id>>).data
       IN  /\ Exclusive(begun)
           /\ Exclusive(checked)
           /\ Exclusive(checkLoop(begun, <<id>>).data)
           /\ Exclusive(beginLoop(checked, <<id>>).data)

\* beginTasks has been issued on the id of a complete task
C11_Witness ==
  /\ result = [op |-> "beginTasks", status |-> "throw"]
  /\ \E k \in DOMAIN active : Flag(active[k], "isComplete")

\* the tokens of a create input that are neither board tags nor priority
\* options, space-joined, are the empty string
EmptyDescription(input) ==
  Len(join(SelectSeq(input, LAMBDA x : ~_isPriorityOpt(x) /\ ~isBoardTag(x)),
           <<" ">>)) = 0

\* C13: createTask and createNote exit and write nothing when the token list
\* is empty and when the description left after removing board tags and
\* priority options is empty; no item with an empty description is stored.
C13_EmptyDescriptionIsFatal ==
  [][/\ (pc = "idle" /\ result'.op = "createTask") =>
          \A input \in CreateInputs, f1, f2, fw \in Fails :
            (EmptyDescription(input) /\ createTask(input, f1, f2, fw))
              => Unwritten /\ result'.status = "exit"
     /\ (pc = "idle" /\ result'.op = "createNote") =>
          \A input \in NoteInputs, f1, f2, fw \in Fails :
            (EmptyDescription(input) /\ createNote(input, f1, f2, fw))
              => Unwritten /\ result'.status = "exit"
     /\ \A k \in DOMAIN active' : Len(active'[k].description) > 0]_vars

\* the input holds exactly one token starting with '@' and it names a key of
\* the active collection
OneValidTarget(input) ==
  /\ Len(targetsOf(input)) = 1
  /\ stripAt(targetsOf(input)[1]) \in DOMAIN active

\* the active collection with field f of the target of input set to v
WithTargetField(input, f, v) ==
  [active EXCEPT ![stripAt(targetsOf(input)[1])] = SetField(@, f, v)]

\* what a single-target command may do to the store: nothing but an exit
\* without exactly one target, no change without one valid target, and with
\* one valid target, a payload and its storage requests succeeding, field f
\* of that item becomes v and nothing else changes
SingleTargetEffect(input, payload, ok, f, v) ==
  /\ archive' = archive
  /\ Len(targetsOf(input)) # 1 => (active' = active /\ result'.status = "exit")
  /\ active' # active => OneValidTarget(input)
  /\ (OneValidTarget(input) /\ payload /\ ok) =>
       active' = WithTargetField(input, f, v)

\* C14: moveBoards, editDescription and updatePriority exit and write nothing
\* with zero or with more than one '@' token, change the store only when the
\* one '@' token names an existing active id, and then change the boards,
\* description or priority of that item and of no other item.
C14_SingleTargetCommands ==
  [][/\ (pc = "idle" /\ result'.op = "moveBoards") =>
          \A input \in MoveInputs, f1, f2, fw \in Fails :
            moveBoards(input, f1, f2, fw) =>
              LET rest == IF Len(targetsOf(input)) = 0 THEN input
                          ELSE restOf(input, targetsOf(input)[1])
              IN  SingleTargetEffect(input, Len(rest) > 0, ~f1 /\ ~f2 /\ ~fw,
                                     "boards", boardsOf(rest))
     /\ (pc = "idle" /\ result'.op = "updatePriority") =>
          \A input \in PriorityInputs, f1, f2, fw \in Fails :
            updatePriority(input, f1, f2, fw) =>
              SingleTargetEffect(input, levelOf(input) # <<>>,
                                 ~f1 /\ ~f2 /\ ~fw, "priority", levelOf(input))
     /\ (pc = "idle" /\ result'.op = "editDescription") =>
          \A input \in EditInputs, f1 \in Fails :
            editDescription(input, f1) =>
              LET rest == IF Len(targetsOf(input)) = 0 THEN input
                          ELSE restOf(input, targetsOf(input)[1])
              IN  SingleTargetEffect(input, Len(rest) > 0, ~f1,
                                     "description", join(rest, <<" ">>))]_vars

CompleteTags == {"done", "checked", "complete"}

ProgressTags == {"progress", "started", "begun"}

\* complete-and-progress filtering of data, in either order and under every
\* synonym, leaves nothing
NoneCompleteAndInProgress(data) ==
  \A c \in CompleteTags, p \in ProgressTags :
    /\ _filterByAttributes(<<c, p>>, data).ret = EmptyColl
    /\ _filterByAttributes(<<p, c>>, data).ret = EmptyColl

\* C15: for every active collection reachable by a sequence of commands (and
\* for what the loop of beginTasks makes of it), _filterByAttributes with a
\* complete tag and a progress tag, in either order, returns the empty
\* collection.
C15_CompleteAndProgressIsEmpty ==
  /\ NoneCompleteAndInProgress(active)
  /\ \A id \in DOMAIN active :
       NoneCompleteAndInProgress(beginLoop(active, <<id>>).data)

\* the active collection holds a complete task and another item, so that
\* each of the two filters alone keeps an item of it or of its begun form
C15_Witness ==
  /\ Cardinality(DOMAIN active) = 2
  /\ _filterByAttributes(<<"complete">>, active).ret # EmptyColl
  /\ \E id \in DOMAIN active :
       _filterByAttributes(<<"progress">>, beginLoop(active, <<id>>).data).ret
         # EmptyColl

\* the distinct ids of an id list, in the order of their first occurrence
DistinctOf(ids) == Dedup(ids, {})

\* the id lists of IdLists with a repeated id whose ids are all keys of
\* data: a key given twice
RepeatingLists(data) == {<<k, k>> : k \in DOMAIN data}

\* what _validateIDs and the loops make of an existing key given twice: the
\* list is accepted and is the key once, the loop of checkTasks flips
\* isComplete of a task once and the loop of starItems flips isStarred once
DedupOnStore(data) ==
  \A ids \in RepeatingLists(data) :
    LET v == _validateIDs(ids, TRUE, _getIDs(data))
        k == ids[1]
    IN  /\ v = [ok |-> TRUE, ids |-> <<k>>]
        /\ v = _validateIDs(DistinctOf(ids), TRUE, _getIDs(data))
        /\ ~checkLoop(data, v.ids).threw
        /\ data[k]._isTask =>
             checkLoop(data, v.ids).data[k].isComplete = ~data[k].isComplete
        /\ starLoop(data, v.ids).data[k].isStarred = ~data[k].isStarred

\* C16: duplicate ids are deduplicated and not rejected: on every reachable
\* store, on either backend, a list that gives an existing id twice is
\* accepted by _validateIDs as that id once, so check([id, id]) toggles the
\* task once; and on the local backend every step of checkTasks, starItems
\* or deleteItems on such a list is the step of the same command on its
\* distinct ids (it leaves the same state) and does not exit, delete([id, id])
\* entering its loop with the one id.
C16_DuplicateIdsAreDeduplicated ==
  /\ [](DedupOnStore(active) /\ DedupOnStore(archive))
  /\ [][~useDynamo =>
          /\ (pc = "idle" /\ result'.op = "checkTasks") =>
               \A ids \in RepeatingLists(active) :
                 checkTasks(ids, FALSE, FALSE, FALSE) =>
                   /\ checkTasks(DistinctOf(ids), FALSE, FALSE, FALSE)
                   /\ result'.status = "ok"
                   /\ \A i \in 1..Len(ids) :
                        active[ids[i]]._isTask =>
                          active'[ids[i]].isComplete = ~active[ids[i]].isComplete
          /\ (pc = "idle" /\ result'.op = "starItems") =>
               \A ids \in RepeatingLists(active) :
                 starItems(ids, FALSE, FALSE, FALSE) =>
                   /\ starItems(DistinctOf(ids), FALSE, FALSE, FALSE)
                   /\ result'.status = "ok"
                   /\ \A i \in 1..Len(ids) :
                        active'[ids[i]].isStarred = ~active[ids[i]].isStarred
          /\ (pc = "idle" /\ result'.op = "deleteItems") =>
               \A ids \in RepeatingLists(active) :
                 deleteItems(ids, FALSE, FALSE) =>
                   /\ deleteItems(DistinctOf(ids), FALSE, FALSE)
                   /\ pc' = "delete"
                   /\ cmd'.ids = DistinctOf(ids)
                   /\ Distinct(cmd'.ids)]_vars

\* a checkTasks has left a task complete on a store where the list of that
\* id given twice is valid and stands for the id once
C16_Witness ==
  /\ result = [op |-> "checkTasks", status |-> "ok"]
  /\ \E id \in DOMAIN active :
       /\ active[id]._isTask /\ active[id].isComplete
       /\ _validateIDs(<<id, id>>, TRUE, _getIDs(active))
            = [ok |-> TRUE, ids |-> <<id>>]

HasBoards(data) == \A k \in DOMAIN data : Len(data[k].boards) > 0

\* how a create that stored its item ends
CreatedOk == {[op |-> op, status |-> "ok"] : op \in {"createTask", "createNote"}}

\* C18: starting from the empty store, after any sequence of commands every
\* item in active and in archive has a non-empty boards list; a create
\* without a board tag stores the boards ["My Board"], and a moveBoards step
\* stores no empty list and exits without a write when it is given no board.
C18_BoardsNeverEmpty ==
  /\ [](HasBoards(active) /\ HasBoards(archive) /\ HasBoards(cmd.data))
  /\ [][/\ (pc = "idle" /\ result' \in CreatedOk) =>
             \A k \in DOMAIN active' :
               \/ (k \in DOMAIN active /\ active'[k] = active[k])
               \/ active'[k].boards = <<MyBoard>>
               \/ /\ Len(active'[k].boards) > 0
                  /\ \A i \in 1..Len(active'[k].boards) :
                       isBoardTag(active'[k].boards[i])
        /\ (pc = "idle" /\ result'.op = "moveBoards") =>
             \A input \in MoveInputs, f1, f2, fw \in Fails :
               (/\ Len(targetsOf(input)) = 1
                /\ Len(restOf(input, targetsOf(input)[1])) = 0
                /\ moveBoards(input, f1, f2, fw))
                 => (Unwritten /\ result'.status = "exit")]_vars

\* moveBoards has given an item a board, and another item has the default
C18_Witness ==
  /\ result = [op |-> "moveBoards", status |-> "ok"]
  /\ \E k \in DOMAIN active : active[k].boards = <<<<"@">> \o B1>>
  /\ \E k \in DOMAIN active : active[k].boards = <<MyBoard>>

\* one tag of each case of the filter's switch, and one it does not know
AttrTags == {"star", "complete", "progress", "pending", "task", "note", "other"}

\* the tag lists handed to the filter: none, one tag, two tags
AttrLists ==
  {<<>>} \cup {<<x>> : x \in AttrTags} \cup {<<x, y>> : x, y \in AttrTags}

\* C19: the attribute filter is pure: for every collection object passed to
\* _filterByAttributes (every reachable active collection) and every tag
\* list, the object passed in holds the same items after the call as before.
C19_FilterLeavesItsInputAlone ==
  \A attr \in AttrLists : _filterByAttributes(attr, active).arg = active

\* one of the three remote settings is missing
MissingConfig ==
  ~(config.dynamoBaseUrl /\ config.dynamoToken /\ config.dynamoNamespace)

\* C12: with the remote backend selected and any of the base URL, the token
\* or the namespace missing, every read and every write ends in the fatal
\* configuration error (process.exit(1) after render.missingConfig), no GET
\* or PUT request is ever issued, and the stored collection is untouched.
C12_MissingConfigIsFatalBeforeAnyRequest ==
  /\ []((useDynamo /\ MissingConfig) =>
          /\ requests = <<>>
          /\ call.pc \in {"idle", "exited"}
          /\ call.pc = "exited" => call.missing # "")
  /\ [][(useDynamo /\ MissingConfig) =>
          /\ (call.pc = "idle" /\ call' # call) => call'.pc = "exited"
          /\ requests' = requests
          /\ active' = active]_vars

\* with only the namespace missing, a read has exited and the write of the
\* next invocation has exited too
C12_Witness ==
  /\ useDynamo
  /\ config = [CompleteConfig EXCEPT !.dynamoNamespace = FALSE]
  /\ call.pc = "exited"
  /\ call.op = "put"
  /\ call.missing = "dynamoNamespace"
  /\ call.n = 2
  /\ requests = <<>>

BothDone == \A p \in Procs : proc[p].pc = "done"

\* the flag a racing checkTasks or starItems toggles
ToggledBy(op) == IF op = "checkTasks" THEN "isComplete" ELSE "isStarred"

\* the change of invocation o is not in the stored collection, which invocation
\* l wrote from the snapshot it had read: the item o created is not stored,
\* or the flag o toggled is as l read it (toggled once if l toggles it too)
Lost(o, l) ==
  IF proc[o].op = "createTask" THEN raceUid(o) \notin Uids(active)
  ELSE LET f == ToggledBy(proc[o].op)
           k == RaceIds[1]
       IN  active[k][f] = IF proc[l].op = proc[o].op THEN ~proc[l].read[k][f]
                          ELSE proc[l].read[k][f]

\* C20: two invocations run at once on the same active collection, each as
\* read, change, write: when both have finished the stored collection is the
\* snapshot of the invocation that wrote last; if that one read its snapshot
\* before the other wrote, the change of the other is lost; and two creates
\* that allocated the same id leave exactly one of the two new items stored.
C20_LastWriterWins ==
  BothDone =>
    LET o == writes[1]
        l == writes[2]
    IN  /\ active = proc[l].data
        /\ proc[l].seen = 0 => Lost(o, l)
        /\ (proc[o].op = "createTask" /\ proc[l].op = "createTask"
              /\ proc[o].id = proc[l].id) =>
             Cardinality({raceUid(o), raceUid(l)} \cap Uids(active)) = 1

\* two creates have read equal snapshots, allocated the same id and both
\* written: only the item of the last writer is stored
C20_Witness ==
  /\ BothDone
  /\ \A p \in Procs : proc[p].op = "createTask" /\ proc[p].seen = 0
  /\ proc[1].id = proc[2].id
  /\ Uids(active) \cap {raceUid(1), raceUid(2)} = {raceUid(writes[2])}
  /\ Uids(proc[1].read) \subseteq Uids(active)

\* a step of the startup purge: every scratch file is unlinked, the canonical
\* files and the writer are as they were
PurgeStep == temp # <<>> /\ temp' = <<>> /\ disk' = disk /\ wr' = wr

\* the scratch file of a write that has not reached its rename is in the
\* scratch directory
ScratchInFlight == wr.pc = "write" /\ wr.path \in DOMAIN temp

\* C21: a local write that has started and is not killed ends with its rename
\* done and the canonical file holding exactly the text of the collection it
\* was given, also when an instance starts up between its scratch-file write
\* and its rename; and the startup purge removes no scratch file of a write
\* that is still on its way to the rename.
C21_StartedWriteSurvivesStartup ==
  [][/\ (wr.pc = "write" /\ wr'.pc \notin {"write", "crashed"}) =>
          (wr'.pc = "done" /\ disk'[wr.file] = JSONstringify(wr.data))
     /\ PurgeStep => ~ScratchInFlight]_vars

\* a write whose text was whole in its scratch file has failed at its rename:
\* the scratch file is gone and the canonical file holds the prior collection
C21_Witness ==
  /\ wr.pc = "failed"
  /\ wr.written = MaxChunks
  /\ wr.data # wr.prior
  /\ wr.path \notin DOMAIN temp
  /\ readFile(wr.file).data = wr.prior

====
